---- MODULE Spec2Model ----
(***************************************************************************)
(* Model of the jj MCP server's tool-dispatch and argument-marshalling     *)
(* layer (src/src/lib.rs): JjTool::call decodes the untyped arguments into *)
(* the tool's parameter struct, the run_jj_* adapter builds the argument   *)
(* vector, run_jj_command_sync spawns the external process and the exit    *)
(* status and captured streams are mapped to a CallToolResponse.           *)
(***************************************************************************)
EXTENDS Integers, Sequences, FiniteSets, TLC

VARIABLES
    name,       \* JjTool.name, fixed when the tool object is constructed
    pc,         \* position of the invocation: "idle", "running", "returned"
    arguments,  \* Option<Value> handed to call
    params,     \* the decoded parameter struct
    args,       \* the argument vector handed to Command::args
    cwd,        \* the working-directory override handed to Command::current_dir
    spawns,     \* number of calls of Command::output made by the invocation
    proc,       \* what the external process did (exit status and streams)
    response,   \* Option<CallToolResponse> returned by call
    stdio,      \* how the command was told to treat the two output streams
    result      \* Option<Result<CallToolResponse>>: what call gave back

vars == <<name, pc, arguments, params, args, cwd, spawns, proc, response, stdio, result>>

----------------------------------------------------------------------------
(* Bounds of the model *)

\* longest "paths" list of a diff call
MaxPaths == 2
\* most bytes the external process writes to its two streams together
MaxOut == 3

----------------------------------------------------------------------------
(* Option<T>: None is the empty sequence, Some(v) the one-element sequence *)

None == <<>>
Some(v) == <<v>>

----------------------------------------------------------------------------
(* serde_json::Value: the kind k and, under a name of its own, what the     *)
(* value of that kind holds                                                *)

JNull == [k |-> "null"]
JBool(b) == [k |-> "bool", b |-> b]
JNum(n) == [k |-> "num", n |-> n]
JStr(s) == [k |-> "str", s |-> s]
JArr(a) == [k |-> "arr", a |-> a]
JObj(o) == [k |-> "obj", o |-> o]
\* a number written with a fraction or an exponent, kept as its text
JFloat(t) == [k |-> "float", f |-> t]

----------------------------------------------------------------------------
(* The parameter structs: the fields in declaration order, each with the   *)
(* key serde reads it from and the type inside its Option                  *)

Fld(key, field, ty) == [key |-> key, field |-> field, ty |-> ty]

StatusParams ==
    << Fld("repoPath", "repo_path", "String"),
       Fld("cwd", "cwd", "String") >>

RebaseParams ==
    << Fld("source", "source", "String"),
       Fld("destination", "destination", "String"),
       Fld("repoPath", "repo_path", "String"),
       Fld("cwd", "cwd", "String") >>

CommitParams ==
    << Fld("message", "message", "String"),
       Fld("repoPath", "repo_path", "String"),
       Fld("cwd", "cwd", "String") >>

NewParams ==
    << Fld("parents", "parents", "String"),
       Fld("repoPath", "repo_path", "String"),
       Fld("cwd", "cwd", "String") >>

LogParams ==
    << Fld("repoPath", "repo_path", "String"),
       Fld("cwd", "cwd", "String"),
       Fld("limit", "limit", "u32"),
       Fld("template", "template", "String"),
       Fld("revisions", "revisions", "String") >>

DiffParams ==
    << Fld("repoPath", "repo_path", "String"),
       Fld("cwd", "cwd", "String"),
       Fld("from", "from", "String"),
       Fld("to", "to", "String"),
       Fld("paths", "paths", "Vec<String>"),
       Fld("summary", "summary", "bool"),
       Fld("stat", "stat", "bool"),
       Fld("context", "context", "u32") >>

GitCloneParams ==
    << Fld("source", "source", "String"),
       Fld("destination", "destination", "String"),
       Fld("colocate", "colocate", "bool"),
       Fld("remote", "remote", "String"),
       Fld("depth", "depth", "u32") >>

FieldNames(schema) == {schema[i].field : i \in 1..Len(schema)}

\* a Default that names the current directory as cwd
Default_dot(schema) ==
    [f \in FieldNames(schema) |-> IF f = "cwd" THEN Some(".") ELSE None]

\* #[derive(Default)]: every Option field is None
Default(schema) == [f \in FieldNames(schema) |-> None]

----------------------------------------------------------------------------
(* serde_json::from_value into a parameter struct.  A decode result is     *)
(* [ok |-> TRUE, val |-> v] or [ok |-> FALSE].                             *)

Ok(v) == [ok |-> TRUE, val |-> v]
Err == [ok |-> FALSE]

\* Deserialize for String, u32, bool and Vec<String> from a Value.  A u32
\* takes a non-negative integer; its upper limit 2^32 - 1 lies above every
\* number of the model.
DeserializeT(ty, j) ==
    CASE ty = "String" -> IF j.k = "str" THEN Ok(j.s) ELSE Err
      [] ty = "u32" -> IF j.k = "num" /\ j.n >= 0 THEN Ok(j.n) ELSE Err
      [] ty = "bool" -> IF j.k = "bool" THEN Ok(j.b) ELSE Err
      [] ty = "Vec<String>" ->
            IF j.k = "arr" /\ \A i \in 1..Len(j.a) : j.a[i].k = "str"
            THEN Ok([i \in 1..Len(j.a) |-> j.a[i].s])
            ELSE Err

\* Deserialize for Option<T>: null is None, anything else must be a T
DeserializeOption(ty, j) ==
    IF j.k = "null" THEN Ok(None)
    ELSE LET r == DeserializeT(ty, j) IN IF r.ok THEN Ok(Some(r.val)) ELSE Err

\* visit_map under #[serde(deny_unknown_fields)]
VisitMap_deny_unknown(schema, o) ==
    LET r == [i \in 1..Len(schema) |->
                IF schema[i].key \in DOMAIN o
                THEN DeserializeOption(schema[i].ty, o[schema[i].key])
                ELSE Ok(None)]
    IN IF /\ \A i \in 1..Len(schema) : r[i].ok
          /\ DOMAIN o \subseteq {schema[i].key : i \in 1..Len(schema)}
       THEN Ok([f \in FieldNames(schema) |->
                   r[CHOOSE i \in 1..Len(schema) : schema[i].field = f].val])
       ELSE Err

\* visit_map leaving None where a value does not decode
VisitMap_lenient(schema, o) ==
    LET r == [i \in 1..Len(schema) |->
                IF schema[i].key \in DOMAIN o
                THEN LET d == DeserializeOption(schema[i].ty, o[schema[i].key])
                     IN IF d.ok THEN d ELSE Ok(None)
                ELSE Ok(None)]
    IN Ok([f \in FieldNames(schema) |->
              r[CHOOSE i \in 1..Len(schema) : schema[i].field = f].val])

\* The derived visit_map: a key of the struct is decoded, any other key is
\* skipped, a key that is missing leaves its Option field None
VisitMap(schema, o) ==
    LET r == [i \in 1..Len(schema) |->
                IF schema[i].key \in DOMAIN o
                THEN DeserializeOption(schema[i].ty, o[schema[i].key])
                ELSE Ok(None)]
    IN IF \A i \in 1..Len(schema) : r[i].ok
       THEN Ok([f \in FieldNames(schema) |->
                   r[CHOOSE i \in 1..Len(schema) : schema[i].field = f].val])
       ELSE Err

\* The derived visit_seq: the elements are the fields in declaration order;
\* too few or too many elements is an invalid length
VisitSeq(schema, a) ==
    IF Len(a) # Len(schema) THEN Err
    ELSE LET r == [i \in 1..Len(schema) |-> DeserializeOption(schema[i].ty, a[i])]
         IN IF \A i \in 1..Len(schema) : r[i].ok
            THEN Ok([f \in FieldNames(schema) |->
                        r[CHOOSE i \in 1..Len(schema) : schema[i].field = f].val])
            ELSE Err

from_value(schema, j) ==
    CASE j.k = "obj" -> VisitMap(schema, j.o)
      [] j.k = "arr" -> VisitSeq(schema, j.a)
      [] OTHER -> Err

\* Option<Value>::unwrap_or_default: the default Value is null
unwrap_or_default_value(a) == IF a = None THEN JNull ELSE a[1]

\* Result<P>::unwrap_or_default
unwrap_or_default(schema, r) == IF r.ok THEN r.val ELSE Default(schema)

----------------------------------------------------------------------------
(* Building the argument vector *)

\* Vec::push and Vec::extend
push(v, x) == Append(v, x)
extend(v, xs) == v \o xs

\* u32::to_string: the decimal digits, most significant first
Digit == <<"0", "1", "2", "3", "4", "5", "6", "7", "8", "9">>

\* the digits pushed least significant first
RECURSIVE u32_to_string_reversed(_)
u32_to_string_reversed(n) ==
    IF n < 10 THEN Digit[n + 1]
    ELSE Digit[(n % 10) + 1] \o u32_to_string_reversed(n \div 10)

RECURSIVE u32_to_string(_)
u32_to_string(n) ==
    IF n < 10 THEN Digit[n + 1]
    ELSE u32_to_string(n \div 10) \o Digit[(n % 10) + 1]

\* add_repo_args with the two pushes exchanged
add_repo_args_swapped(v, repo_path) ==
    IF repo_path # None
    THEN push(push(v, repo_path[1]), "-R")
    ELSE v

add_repo_args(v, repo_path) ==
    IF repo_path # None
    THEN push(push(v, "-R"), repo_path[1])
    ELSE v

status_args(p) ==
    LET a0 == <<"status">>
    IN add_repo_args(a0, p.repo_path)

\* run_jj_rebase pushing the destination before the source
rebase_args_dest_first(p) ==
    LET a0 == <<"rebase">>
        a1 == IF p.destination # None
              THEN push(push(a0, "-d"), p.destination[1]) ELSE a0
        a2 == IF p.source # None THEN push(push(a1, "-s"), p.source[1]) ELSE a1
    IN add_repo_args(a2, p.repo_path)

rebase_args(p) ==
    LET a0 == <<"rebase">>
        a1 == IF p.source # None THEN push(push(a0, "-s"), p.source[1]) ELSE a0
        a2 == IF p.destination # None
              THEN push(push(a1, "-d"), p.destination[1]) ELSE a1
    IN add_repo_args(a2, p.repo_path)

commit_args(p) ==
    LET a0 == <<"commit">>
        a1 == IF p.message # None THEN push(push(a0, "-m"), p.message[1]) ELSE a0
    IN add_repo_args(a1, p.repo_path)

\* run_jj_new calling add_repo_args before it pushes the parents
new_args_repo_first(p) ==
    LET a0 == <<"new">>
        a1 == add_repo_args(a0, p.repo_path)
    IN IF p.parents # None THEN push(a1, p.parents[1]) ELSE a1

new_args(p) ==
    LET a0 == <<"new">>
        a1 == IF p.parents # None THEN push(a0, p.parents[1]) ELSE a0
    IN add_repo_args(a1, p.repo_path)

log_args(p) ==
    LET a0 == <<"log">>
        a1 == IF p.limit # None
              THEN push(push(a0, "-n"), u32_to_string(p.limit[1])) ELSE a0
        a2 == IF p.template # None THEN push(push(a1, "-T"), p.template[1]) ELSE a1
        a3 == IF p.revisions # None THEN push(a2, p.revisions[1]) ELSE a2
    IN add_repo_args(a3, p.repo_path)

\* run_jj_diff extending the vector by the paths before the flags
diff_args_paths_first(p) ==
    LET a0 == <<"diff">>
        a1 == IF p.paths # None THEN extend(a0, p.paths[1]) ELSE a0
        a2 == IF p.from # None THEN push(push(a1, "--from"), p.from[1]) ELSE a1
        a3 == IF p.to # None THEN push(push(a2, "--to"), p.to[1]) ELSE a2
        a4 == IF p.context # None
              THEN push(push(a3, "--context"), u32_to_string(p.context[1])) ELSE a3
        a5 == IF p.summary = Some(TRUE) THEN push(a4, "--summary") ELSE a4
        a6 == IF p.stat = Some(TRUE) THEN push(a5, "--stat") ELSE a5
    IN add_repo_args(a6, p.repo_path)

\* run_jj_diff testing summary and stat for Some(_) instead of Some(true)
diff_args_flag_if_some(p) ==
    LET a0 == <<"diff">>
        a1 == IF p.from # None THEN push(push(a0, "--from"), p.from[1]) ELSE a0
        a2 == IF p.to # None THEN push(push(a1, "--to"), p.to[1]) ELSE a1
        a3 == IF p.context # None
              THEN push(push(a2, "--context"), u32_to_string(p.context[1])) ELSE a2
        a4 == IF p.summary # None THEN push(a3, "--summary") ELSE a3
        a5 == IF p.stat # None THEN push(a4, "--stat") ELSE a4
        a6 == IF p.paths # None THEN extend(a5, p.paths[1]) ELSE a5
    IN add_repo_args(a6, p.repo_path)

diff_args(p) ==
    LET a0 == <<"diff">>
        a1 == IF p.from # None THEN push(push(a0, "--from"), p.from[1]) ELSE a0
        a2 == IF p.to # None THEN push(push(a1, "--to"), p.to[1]) ELSE a1
        a3 == IF p.context # None
              THEN push(push(a2, "--context"), u32_to_string(p.context[1])) ELSE a2
        a4 == IF p.summary = Some(TRUE) THEN push(a3, "--summary") ELSE a3
        a5 == IF p.stat = Some(TRUE) THEN push(a4, "--stat") ELSE a4
        a6 == IF p.paths # None THEN extend(a5, p.paths[1]) ELSE a5
    IN add_repo_args(a6, p.repo_path)

\* run_jj_git_clone pushing the destination before the source
git_clone_args_dest_first(p) ==
    LET a0 == <<"git", "clone">>
        a1 == IF p.destination # None THEN push(a0, p.destination[1]) ELSE a0
        a2 == IF p.source # None THEN push(a1, p.source[1]) ELSE a1
        a3 == IF p.colocate = Some(TRUE) THEN push(a2, "--colocate") ELSE a2
        a4 == IF p.remote # None THEN push(push(a3, "--remote"), p.remote[1]) ELSE a3
        a5 == IF p.depth # None
              THEN push(push(a4, "--depth"), u32_to_string(p.depth[1])) ELSE a4
    IN a5

git_clone_args(p) ==
    LET a0 == <<"git", "clone">>
        a1 == IF p.source # None THEN push(a0, p.source[1]) ELSE a0
        a2 == IF p.destination # None THEN push(a1, p.destination[1]) ELSE a1
        a3 == IF p.colocate = Some(TRUE) THEN push(a2, "--colocate") ELSE a2
        a4 == IF p.remote # None THEN push(push(a3, "--remote"), p.remote[1]) ELSE a3
        a5 == IF p.depth # None
              THEN push(push(a4, "--depth"), u32_to_string(p.depth[1])) ELSE a4
    IN a5

----------------------------------------------------------------------------
(* The external process and the mapping of its outcome *)

\* char::is_whitespace, the Unicode White_Space characters of the ASCII range
White_Space == {" ", "\t", "\n", "\r", "\f"}
is_whitespace(c) == c \in White_Space

\* String::from_utf8_lossy: a byte that is no valid UTF-8 becomes U+FFFD
InvalidByte == "0xFF"
REPLACEMENT_CHARACTER == "U+FFFD"
from_utf8_lossy(bytes) ==
    [i \in 1..Len(bytes) |->
        IF bytes[i] = InvalidByte THEN REPLACEMENT_CHARACTER ELSE bytes[i]]

\* str::trim: drop the whitespace before the first and after the last
\* character that is not whitespace
RECURSIVE trim_start(_)
trim_start(s) ==
    IF s # <<>> /\ is_whitespace(Head(s)) THEN trim_start(Tail(s)) ELSE s

RECURSIVE trim_end(_)
trim_end(s) ==
    IF s # <<>> /\ is_whitespace(s[Len(s)])
    THEN trim_end(SubSeq(s, 1, Len(s) - 1))
    ELSE s

\* trim_end in the place of trim
trim_end_only(s) == trim_end(s)

trim(s) == trim_end(trim_start(s))

\* str::to_string of a sequence of characters
RECURSIVE to_string(_)
to_string(s) == IF s = <<>> THEN "" ELSE Head(s) \o to_string(Tail(s))

\* ExitStatus::success
success(status) == status = 0

\* anyhow::anyhow!(..): an error carrying its message
Anyhow(msg) == [ok |-> FALSE, msg |-> msg]

\* run_jj_command_sync reading the standard output of a failed process
run_jj_command_sync_stdout(o) ==
    IF o.kind = "output"
    THEN IF success(o.status)
         THEN Ok(to_string(trim(from_utf8_lossy(o.stdout))))
         ELSE Anyhow("Error: " \o to_string(trim(from_utf8_lossy(o.stdout))))
    ELSE Anyhow("Error: " \o o.error)

\* run_jj_command_sync handing on the io::Error as it is
run_jj_command_sync_bare_error(o) ==
    IF o.kind = "output"
    THEN IF success(o.status)
         THEN Ok(to_string(trim(from_utf8_lossy(o.stdout))))
         ELSE Anyhow("Error: " \o to_string(trim(from_utf8_lossy(o.stderr))))
    ELSE Anyhow(o.error)

\* The match on cmd.output() in run_jj_command_sync.  o is the result of
\* cmd.output(): the exit status and the two captured streams, or the
\* io::Error of a process that could not be run.
run_jj_command_sync(o) ==
    IF o.kind = "output"
    THEN IF success(o.status)
         THEN Ok(to_string(trim(from_utf8_lossy(o.stdout))))
         ELSE Anyhow("Error: " \o to_string(trim(from_utf8_lossy(o.stderr))))
    ELSE Anyhow("Error: " \o o.error)

Text(t) == [type |-> "text", text |-> t]

\* the closing match leaving is_error unset when the command succeeded
to_response_unset(r) ==
    IF r.ok
    THEN [content |-> <<Text(r.val)>>, is_error |-> None, meta |-> None]
    ELSE [content |-> <<Text(r.msg)>>, is_error |-> Some(TRUE), meta |-> None]

\* The match that closes every run_jj_* adapter
to_response(r) ==
    IF r.ok
    THEN [content |-> <<Text(r.val)>>, is_error |-> Some(FALSE), meta |-> None]
    ELSE [content |-> <<Text(r.msg)>>, is_error |-> Some(TRUE), meta |-> None]

\* the fall-through arm leaving is_error unset
unknown_tool_unflagged(n) ==
    [content |-> <<Text("Unknown tool: " \o n)>>, is_error |-> None, meta |-> None]

\* The fall-through arm of the match in call
unknown_tool(n) ==
    [content |-> <<Text("Unknown tool: " \o n)>>, is_error |-> Some(TRUE), meta |-> None]

----------------------------------------------------------------------------
(* The inputs of the model *)

\* the names the match in call has an arm for
KnownTools == {"status", "rebase", "commit", "new", "log", "diff", "git-clone"}

\* names without an arm: another word, another case, a near miss, no name
UnknownNames == {"unknown", "Status", "git_clone", ""}

Names == KnownTools \cup UnknownNames

\* create_tools of the server binary with the log tool registered under the
\* name of the tool before it
create_tools_copied_name ==
    <<"status", "rebase", "commit", "new", "new", "diff", "git-clone">>

\* create_tools of the server binary: the names of the tools it adds to the
\* catalogue, in the order of the add_tool calls
create_tools ==
    <<"status", "rebase", "commit", "new", "log", "diff", "git-clone">>

\* the names the match in call of the server binary has an arm for
main_call_arms == {"status", "rebase", "commit", "new", "log", "diff", "git-clone"}

SchemaOf(n) ==
    CASE n = "status" -> StatusParams
      [] n = "rebase" -> RebaseParams
      [] n = "commit" -> CommitParams
      [] n = "new" -> NewParams
      [] n = "log" -> LogParams
      [] n = "diff" -> DiffParams
      [] n = "git-clone" -> GitCloneParams

RECURSIVE SeqsUpTo(_, _)
SeqsUpTo(S, n) ==
    IF n = 0 THEN {<<>>}
    ELSE LET r == SeqsUpTo(S, n - 1)
         IN r \cup {Append(q, e) : q \in {t \in r : Len(t) = n - 1}, e \in S}

PathNames == {"a.txt", "b.txt"}

\* the values a call may carry under a key
InputVals(key) ==
    CASE key = "repoPath" -> {JStr("/repo")}
      [] key = "cwd" -> {JStr("/work")}
      [] key \in {"source", "destination"} -> {JStr("@"), JStr("main")}
      [] key = "message" -> {JStr("fix"), JStr("")}
      [] key = "parents" -> {JStr("@"), JStr("main")}
      [] key = "limit" -> {JNum(0), JNum(5), JNum(10)}
      [] key = "template" -> {JStr("commit_id")}
      [] key = "revisions" -> {JStr("@"), JNull}
      [] key = "from" -> {JStr("@-")}
      [] key = "to" -> {JStr("@")}
      [] key = "paths" ->
            {JArr([i \in 1..Len(q) |-> JStr(q[i])]) : q \in SeqsUpTo(PathNames, MaxPaths)}
      [] key \in {"summary", "stat", "colocate"} -> {JBool(TRUE), JBool(FALSE)}
      [] key = "context" -> {JNum(3)}
      [] key = "remote" -> {JStr("origin")}
      [] key = "depth" -> {JNum(10)}

\* the objects over the keys of a schema, each key missing or carrying one
\* of its values
RECURSIVE Objects(_)
Objects(schema) ==
    IF schema = <<>> THEN {<<>>}
    ELSE LET rest == Objects(Tail(schema))
             key == Head(schema).key
         IN rest \cup {(key :> v) @@ o : v \in InputVals(key), o \in rest}

\* the arguments a call of the tool named n may be given
ArgumentsOf ==
    [n \in Names |->
        IF n = "git-clone"
        THEN {None} \cup {Some(JObj(o)) : o \in Objects(SchemaOf(n))}
                    \cup {Some(JObj(o @@ [repoPath |-> JStr("/repo"), cwd |-> JStr("/work")])) :
                             o \in Objects(SchemaOf(n))}
        ELSE IF n \in KnownTools
        THEN {None} \cup {Some(JObj(o)) : o \in Objects(SchemaOf(n))}
        ELSE {None, Some(JObj(<<>>)), Some(JObj([repoPath |-> JStr("/repo")]))}]

\* the calls that leave no key of the tool out, and the call without
\* arguments
FullArgumentsOf ==
    [n \in Names |->
        {a \in ArgumentsOf[n] :
            \/ a = None
            \/ n \notin KnownTools
            \/ \A i \in 1..Len(SchemaOf(n)) : SchemaOf(n)[i].key \in DOMAIN a[1].o}]

\* values of the wrong shape for a field of the type
BadVals(ty) ==
    CASE ty = "String" -> {JNum(1), JBool(TRUE)}
      [] ty = "u32" -> {JStr("5"), JNum(-1), JFloat("5.5")}
      [] ty = "bool" -> {JStr("true"), JNum(1)}
      [] ty = "Vec<String>" -> {JStr("a.txt"), JArr(<<JStr("a.txt"), JNum(1)>>)}

\* keys no parameter struct of the tool reads
ExtraKeysOf(n) ==
    {"repo_path", "verbose"} \cup (IF n = "git-clone" THEN {"repoPath", "cwd"} ELSE {})

\* the objects the ill-formed calls are made from: every key present, or
\* none but repoPath and cwd
BaseObjects(n) ==
    {o \in Objects(SchemaOf(n)) :
        \/ \A i \in 1..Len(SchemaOf(n)) : SchemaOf(n)[i].key \in DOMAIN o
        \/ DOMAIN o \subseteq {"repoPath", "cwd"}}

\* the arguments of the calls of any shape: none, a scalar, an array, an
\* object, an object with one value of the wrong shape, an object with a
\* key the tool does not read
RawArgumentsOf ==
    [n \in Names |->
        IF n \in KnownTools
        THEN LET schema == SchemaOf(n) IN
             {None}
             \cup {Some(v) : v \in {JNull, JStr("status"), JNum(1), JBool(TRUE)}}
             \cup {Some(JArr(a)) :
                     a \in {<<>>, <<JStr("x")>>,
                            [i \in 1..Len(schema) |-> JNull],
                            [i \in 1..Len(schema) |-> JStr("x")],
                            [i \in 1..Len(schema) + 1 |-> JNull]}}
             \cup {Some(JObj(o)) : o \in BaseObjects(n)}
             \cup UNION {{Some(JObj((schema[i].key :> b) @@ o)) :
                             b \in BadVals(schema[i].ty), o \in BaseObjects(n)} :
                         i \in 1..Len(schema)}
             \cup {Some(JObj((e :> v) @@ o)) :
                     e \in ExtraKeysOf(n), v \in {JStr("x"), JNum(-1)},
                     o \in BaseObjects(n)}
        ELSE {None, Some(JStr("x")), Some(JObj(<<>>))}]

\* the bytes a stream of the external process is made of
Bytes == {" ", "\n", "M", InvalidByte}

ExitCodes == {0, 1}

\* what cmd.output() may give back when the process ran and wrote at most
\* n bytes
OutputsUpTo(n) ==
    LET streams == SeqsUpTo(Bytes, n)
    IN {x \in {[kind |-> "output", status |-> c, stdout |-> o, stderr |-> e] :
                  c \in ExitCodes, o \in streams, e \in streams} :
           Len(x.stdout) + Len(x.stderr) <= n}

Outputs == OutputsUpTo(MaxOut)

\* the outputs of a process that writes one byte at most
ShortOutputs == OutputsUpTo(1)

\* what cmd.output() may give back when the process could not be run
LaunchErrors ==
    {[kind |-> "error", error |-> m] :
        m \in {"No such file or directory (os error 2)",
               "Permission denied (os error 13)"}}

----------------------------------------------------------------------------
(* The state machine of one invocation *)

Init ==
    /\ name \in Names
    /\ pc = "idle"
    /\ arguments = None
    /\ params = <<>>
    /\ args = <<>>
    /\ cwd = None
    /\ spawns = 0
    /\ proc = None
    /\ response = None
    /\ stdio = None
    /\ result = None

\* cmd.stdout(Stdio::piped()) and cmd.stderr(Stdio::piped()): each stream
\* has a pipe of its own
Stdio == [stdout |-> "piped", stderr |-> "piped"]

\* the command run without the call of current_dir
Spawn_no_dir(p, v, dir) ==
    /\ params' = p
    /\ args' = v
    /\ stdio' = Some(Stdio)
    /\ cwd' = None
    /\ spawns' = spawns + 1
    /\ pc' = "running"
    /\ UNCHANGED <<name, proc, response, result>>

\* The part of run_jj_command_sync up to cmd.output(): the command is given
\* the argument vector, the directory when there is one, and is run
Spawn(p, v, dir) ==
    /\ params' = p
    /\ args' = v
    /\ stdio' = Some(Stdio)
    /\ cwd' = dir
    /\ spawns' = spawns + 1
    /\ pc' = "running"
    /\ UNCHANGED <<name, proc, response, result>>

Decode(schema, a) ==
    unwrap_or_default(schema, from_value(schema, unwrap_or_default_value(a)))

CallStatus(A) ==
    /\ pc = "idle" /\ name = "status"
    /\ \E a \in A[name] :
          /\ arguments' = a
          /\ LET p == Decode(StatusParams, a) IN Spawn(p, status_args(p), p.cwd)

CallRebase(A) ==
    /\ pc = "idle" /\ name = "rebase"
    /\ \E a \in A[name] :
          /\ arguments' = a
          /\ LET p == Decode(RebaseParams, a) IN Spawn(p, rebase_args(p), p.cwd)

CallCommit(A) ==
    /\ pc = "idle" /\ name = "commit"
    /\ \E a \in A[name] :
          /\ arguments' = a
          /\ LET p == Decode(CommitParams, a) IN Spawn(p, commit_args(p), p.cwd)

CallNew(A) ==
    /\ pc = "idle" /\ name = "new"
    /\ \E a \in A[name] :
          /\ arguments' = a
          /\ LET p == Decode(NewParams, a) IN Spawn(p, new_args(p), p.cwd)

CallLog(A) ==
    /\ pc = "idle" /\ name = "log"
    /\ \E a \in A[name] :
          /\ arguments' = a
          /\ LET p == Decode(LogParams, a) IN Spawn(p, log_args(p), p.cwd)

CallDiff(A) ==
    /\ pc = "idle" /\ name = "diff"
    /\ \E a \in A[name] :
          /\ arguments' = a
          /\ LET p == Decode(DiffParams, a) IN Spawn(p, diff_args(p), p.cwd)

CallGitClone(A) ==
    /\ pc = "idle" /\ name = "git-clone"
    /\ \E a \in A[name] :
          /\ arguments' = a
          /\ LET p == Decode(GitCloneParams, a) IN Spawn(p, git_clone_args(p), None)

CallUnknown(A) ==
    /\ pc = "idle" /\ name \notin KnownTools
    /\ \E a \in A[name] : arguments' = a
    /\ response' = Some(unknown_tool(name))
    /\ result' = Some(Ok(unknown_tool(name)))
    /\ pc' = "returned"
    /\ UNCHANGED <<name, params, args, cwd, spawns, proc, stdio>>

\* The external process runs to its end; the adapter maps what it left
\* the adapter giving up on a process that has not exited
ProcessExit_timeout(O) ==
    /\ pc = "running"
    /\ \E o \in O :
          /\ proc' = None
          /\ response' = Some(to_response(Anyhow("Error: timed out")))
          /\ result' = Some(Ok(to_response(Anyhow("Error: timed out"))))
    /\ pc' = "returned"
    /\ UNCHANGED <<name, arguments, params, args, cwd, spawns, stdio>>

ProcessExit(O) ==
    /\ pc = "running"
    /\ \E o \in O :
          /\ proc' = Some(o)
          /\ response' = Some(to_response(run_jj_command_sync(o)))
          /\ result' = Some(Ok(to_response(run_jj_command_sync(o))))
    /\ pc' = "returned"
    /\ UNCHANGED <<name, arguments, params, args, cwd, spawns, stdio>>

\* the adapter running the command a second time when the first launch failed
LaunchFailure_retry ==
    /\ pc = "running"
    /\ IF spawns < 2
       THEN /\ spawns' = spawns + 1
            /\ pc' = "running"
            /\ UNCHANGED <<proc, response, result>>
       ELSE /\ \E o \in LaunchErrors :
                  /\ proc' = Some(o)
                  /\ response' = Some(to_response(run_jj_command_sync(o)))
                  /\ result' = Some(Ok(to_response(run_jj_command_sync(o))))
            /\ pc' = "returned"
            /\ UNCHANGED spawns
    /\ UNCHANGED <<name, arguments, params, args, cwd, stdio>>

\* The external process cannot be run; the adapter maps the io::Error
LaunchFailure ==
    /\ pc = "running"
    /\ \E o \in LaunchErrors :
          /\ proc' = Some(o)
          /\ response' = Some(to_response(run_jj_command_sync(o)))
          /\ result' = Some(Ok(to_response(run_jj_command_sync(o))))
    /\ pc' = "returned"
    /\ UNCHANGED <<name, arguments, params, args, cwd, spawns, stdio>>

\* Every call of every tool, the process writing one byte at most
Next ==
    \/ CallStatus(ArgumentsOf)
    \/ CallRebase(ArgumentsOf)
    \/ CallCommit(ArgumentsOf)
    \/ CallNew(ArgumentsOf)
    \/ CallLog(ArgumentsOf)
    \/ CallDiff(ArgumentsOf)
    \/ CallGitClone(ArgumentsOf)
    \/ CallUnknown(ArgumentsOf)
    \/ ProcessExit(ShortOutputs)
    \/ LaunchFailure

Spec == Init /\ [][Next]_vars

\* The calls that leave no key out, the process writing up to MaxOut bytes
NextOut ==
    \/ CallStatus(FullArgumentsOf)
    \/ CallRebase(FullArgumentsOf)
    \/ CallCommit(FullArgumentsOf)
    \/ CallNew(FullArgumentsOf)
    \/ CallLog(FullArgumentsOf)
    \/ CallDiff(FullArgumentsOf)
    \/ CallGitClone(FullArgumentsOf)
    \/ CallUnknown(FullArgumentsOf)
    \/ ProcessExit(Outputs)
    \/ LaunchFailure

SpecOut == Init /\ [][NextOut]_vars

\* The calls with arguments of any shape, the process writing one byte at
\* most
NextRaw ==
    \/ CallStatus(RawArgumentsOf)
    \/ CallRebase(RawArgumentsOf)
    \/ CallCommit(RawArgumentsOf)
    \/ CallNew(RawArgumentsOf)
    \/ CallLog(RawArgumentsOf)
    \/ CallDiff(RawArgumentsOf)
    \/ CallGitClone(RawArgumentsOf)
    \/ CallUnknown(RawArgumentsOf)
    \/ ProcessExit(ShortOutputs)
    \/ LaunchFailure

SpecRaw == Init /\ [][NextRaw]_vars

----------------------------------------------------------------------------
(* Vocabulary of the properties *)

\* the invocation has handed its argument vector to the external process
Spawned == pc \in {"running", "returned"} /\ spawns > 0

\* the tools that take repo-args
RepoTools == {"status", "rebase", "commit", "new", "log", "diff"}

\* number of positions of the vector v that hold the token t
Count(t, v) == Cardinality({i \in 1..Len(v) : v[i] = t})

\* the tokens an optional value contributes: a flag and the value, the bare
\* value, or a flag and the decimal numeral of the value
Decimal == (0 :> "0") @@ (3 :> "3") @@ (5 :> "5") @@ (10 :> "10")
ExpectOpt(flag, o) == IF o = <<>> THEN <<>> ELSE <<flag, o[1]>>
ExpectBare(o) == IF o = <<>> THEN <<>> ELSE <<o[1]>>
ExpectNum(flag, o) == IF o = <<>> THEN <<>> ELSE <<flag, Decimal[o[1]]>>
ExpectFlag(flag, o) == IF o = <<TRUE>> THEN <<flag>> ELSE <<>>
ExpectList(o) == IF o = <<>> THEN <<>> ELSE o[1]

\* the one text of a response
TextOf(r) == r.content[1].text

----------------------------------------------------------------------------
(* C1: a call of a tool whose name is none of status, rebase, commit, new, *)
(* log, diff, git-clone returns, whatever the arguments, a response with   *)
(* isError = true whose single text is "Unknown tool: " and the name, and  *)
(* no external process is spawned.                                         *)
C1_UnknownTool ==
    name \notin {"status", "rebase", "commit", "new", "log", "diff", "git-clone"} =>
        /\ pc # "running" /\ spawns = 0 /\ proc = <<>> /\ args = <<>>
        /\ pc = "returned" =>
              /\ response # <<>>
              /\ response[1].is_error = <<TRUE>>
              /\ Len(response[1].content) = 1
              /\ TextOf(response[1]) = "Unknown tool: " \o name
              /\ name = "git_clone" => TextOf(response[1]) = "Unknown tool: git_clone"

C1_Witness ==
    /\ name = "Status" /\ pc = "returned" /\ arguments # <<>>
    /\ TextOf(response[1]) = "Unknown tool: Status"

(* C2: for status, rebase, commit, new, log and diff, whatever the other   *)
(* parameters, a repoPath P makes the argument vector end with the two     *)
(* tokens "-R", P, added once; without repoPath no "-R" is added.          *)
C2_RepoArgsLast ==
    (Spawned /\ name \in RepoTools) =>
        LET n == Len(args) IN
        /\ params.repo_path # <<>> =>
              /\ n >= 3
              /\ args[n - 1] = "-R"
              /\ args[n] = params.repo_path[1]
              /\ Count("-R", args) = 1
        /\ params.repo_path = <<>> => Count("-R", args) = 0

C2_Witness ==
    /\ Spawned /\ name = "diff"
    /\ params.repo_path = <<"/repo">>
    /\ params.paths = << <<"a.txt", "b.txt">> >>
    /\ params.stat = <<TRUE>>
    /\ args[Len(args)] = "/repo"

(* C3: the diff argument vector is "diff", then --from and its value, --to *)
(* and its value, --context and its numeral, each if present, then         *)
(* --summary and --stat, each if true, then the paths in the given order,  *)
(* then repo-args.                                                         *)
C3_DiffVector ==
    (Spawned /\ name = "diff") =>
        args = <<"diff">>
               \o ExpectOpt("--from", params.from)
               \o ExpectOpt("--to", params.to)
               \o ExpectNum("--context", params.context)
               \o ExpectFlag("--summary", params.summary)
               \o ExpectFlag("--stat", params.stat)
               \o ExpectList(params.paths)
               \o ExpectOpt("-R", params.repo_path)

C3_Witness ==
    /\ Spawned /\ name = "diff"
    /\ args = <<"diff", "--from", "@-", "--to", "@", "--context", "3",
                "--summary", "--stat", "b.txt", "a.txt", "-R", "/repo">>

(* C4: --summary and --stat of diff and --colocate of git-clone are in the *)
(* argument vector exactly when their parameter is true, once, and the     *)
(* token after the flag is the one the next parameter contributes, never a *)
(* value of the flag.                                                      *)
AfterFlag(flag, follow) ==
    \A i \in 1..Len(args) :
        args[i] = flag =>
            IF follow = <<>> THEN i = Len(args)
            ELSE i < Len(args) /\ args[i + 1] = follow[1]

C4_BooleanFlags ==
    /\ (Spawned /\ name = "diff") =>
          /\ Count("--summary", args) = (IF params.summary = <<TRUE>> THEN 1 ELSE 0)
          /\ Count("--stat", args) = (IF params.stat = <<TRUE>> THEN 1 ELSE 0)
          /\ AfterFlag("--stat",
                 ExpectList(params.paths) \o ExpectOpt("-R", params.repo_path))
          /\ AfterFlag("--summary",
                 ExpectFlag("--stat", params.stat) \o ExpectList(params.paths)
                     \o ExpectOpt("-R", params.repo_path))
    /\ (Spawned /\ name = "git-clone") =>
          /\ Count("--colocate", args) = (IF params.colocate = <<TRUE>> THEN 1 ELSE 0)
          /\ AfterFlag("--colocate",
                 ExpectOpt("--remote", params.remote)
                     \o ExpectNum("--depth", params.depth))

C4_Witness ==
    /\ Spawned /\ name = "diff"
    /\ params.summary = <<TRUE>> /\ params.stat = <<FALSE>>
    /\ params.paths = << <<"a.txt">> >>
    /\ Count("--summary", args) = 1

----------------------------------------------------------------------------
(* The text of a stream *)

\* t is s without its leading and trailing whitespace: s is whitespace,
\* then t, then whitespace, and t neither begins nor ends with whitespace
IsTrimmed(t, s) ==
    \E i \in 1..Len(s) + 1 :
        \E j \in i - 1..Len(s) :
            /\ t = SubSeq(s, i, j)
            /\ \A k \in 1..i - 1 : s[k] \in White_Space
            /\ \A k \in j + 1..Len(s) : s[k] \in White_Space
            /\ j >= i => (s[i] \notin White_Space /\ s[j] \notin White_Space)

\* the call of a known tool has returned after its process ran and exited
Exited ==
    /\ pc = "returned" /\ name \in KnownTools
    /\ proc # <<>> /\ proc[1].kind = "output"

(* C5: for every known tool, a process that exits with a non-zero status   *)
(* gives a response with isError = true whose text is "Error: " and the    *)
(* standard error without its leading and trailing whitespace; the         *)
(* standard output is not used.                                            *)
C5_NonZeroExit ==
    (Exited /\ proc[1].status # 0) =>
        /\ response[1].is_error = <<TRUE>>
        /\ Len(response[1].content) = 1
        /\ \E t \in SeqsUpTo(Bytes \cup {REPLACEMENT_CHARACTER}, Len(proc[1].stderr)) :
              /\ IsTrimmed(t, from_utf8_lossy(proc[1].stderr))
              /\ TextOf(response[1]) = "Error: " \o to_string(t)
        /\ proc[1].stderr = <<>> => TextOf(response[1]) = "Error: "

C5_Witness ==
    /\ Exited /\ name = "commit" /\ proc[1].status = 1
    /\ proc[1].stderr = <<"\n", "M">> /\ proc[1].stdout = <<"M">>
    /\ TextOf(response[1]) = "Error: M"

C7_GitCloneVector ==
    (Spawned /\ name = "git-clone") =>
        /\ args = <<"git", "clone">>
                  \o ExpectBare(params.source)
                  \o ExpectBare(params.destination)
                  \o ExpectFlag("--colocate", params.colocate)
                  \o ExpectOpt("--remote", params.remote)
                  \o ExpectNum("--depth", params.depth)
        /\ Count("-R", args) = 0
        /\ cwd = <<>>

C7_Witness ==
    /\ Spawned /\ name = "git-clone"
    /\ arguments # <<>>
    /\ "cwd" \in DOMAIN arguments[1].o /\ "repoPath" \in DOMAIN arguments[1].o
    /\ args = <<"git", "clone", "@", "main", "--depth", "10">>

(* C8: the log argument vector is "log", then -n and the numeral of limit, *)
(* -T and the template, the bare revisions, each if present, then          *)
(* repo-args; with limit = 5 it begins "log", "-n", "5".                   *)
C8_LogVector ==
    (Spawned /\ name = "log") =>
        /\ args = <<"log">>
                  \o ExpectNum("-n", params.limit)
                  \o ExpectOpt("-T", params.template)
                  \o ExpectBare(params.revisions)
                  \o ExpectOpt("-R", params.repo_path)
        /\ params.limit = <<5>> => SubSeq(args, 1, 3) = <<"log", "-n", "5">>

C8_Witness ==
    /\ Spawned /\ name = "log"
    /\ args = <<"log", "-n", "10", "-T", "commit_id", "@", "-R", "/repo">>

(* C9: the rebase argument vector is "rebase", then -s and the source, -d  *)
(* and the destination, each if present, then repo-args; source "@" and    *)
(* destination "main" without repoPath give "rebase", "-s", "@", "-d",     *)
(* "main".                                                                 *)
C9_RebaseVector ==
    (Spawned /\ name = "rebase") =>
        /\ args = <<"rebase">>
                  \o ExpectOpt("-s", params.source)
                  \o ExpectOpt("-d", params.destination)
                  \o ExpectOpt("-R", params.repo_path)
        /\ (/\ params.source = <<"@">> /\ params.destination = <<"main">>
            /\ params.repo_path = <<>>)
              => args = <<"rebase", "-s", "@", "-d", "main">>

C9_Witness ==
    /\ Spawned /\ name = "rebase"
    /\ params.source = <<"@">> /\ params.destination = <<"main">>
    /\ params.repo_path = <<>>
    /\ args = <<"rebase", "-s", "@", "-d", "main">>

(* C10: status gives "status" and repo-args; commit gives "commit", -m and *)
(* the message if present, and repo-args; new gives "new", the bare        *)
(* parents if present, and repo-args; nothing else is in the vector.       *)
C10_StatusCommitNewVector ==
    /\ (Spawned /\ name = "status") =>
          /\ args = <<"status">> \o ExpectOpt("-R", params.repo_path)
          /\ params.repo_path = <<"/repo">> => args = <<"status", "-R", "/repo">>
    /\ (Spawned /\ name = "commit") =>
          args = <<"commit">> \o ExpectOpt("-m", params.message)
                 \o ExpectOpt("-R", params.repo_path)
    /\ (Spawned /\ name = "new") =>
          args = <<"new">> \o ExpectBare(params.parents)
                 \o ExpectOpt("-R", params.repo_path)

C10_Witness ==
    /\ Spawned /\ name = "new"
    /\ args = <<"new", "main", "-R", "/repo">>

(* C11: for every known tool, when the external executable cannot be run   *)
(* the call still returns Ok, with a response that has isError = true and  *)
(* the text "Error: " followed by the description of the launch failure.   *)
C11_LaunchFailure ==
    (/\ pc = "returned" /\ name \in KnownTools
     /\ proc # <<>> /\ proc[1].kind = "error") =>
        /\ result # <<>> /\ result[1].ok
        /\ response[1].is_error = <<TRUE>>
        /\ Len(response[1].content) = 1
        /\ TextOf(response[1]) = "Error: " \o proc[1].error

C11_Witness ==
    /\ pc = "returned" /\ name = "git-clone"
    /\ proc # <<>> /\ proc[1].kind = "error"
    /\ TextOf(response[1]) = "Error: No such file or directory (os error 2)"

(* C12: whatever the tool name, the arguments and the outcome of the       *)
(* external process, call returns Ok with an envelope of exactly one text  *)
(* item, isError set to true or false and meta absent; isError is true     *)
(* exactly when the tool is unknown, the process could not be run or it    *)
(* exited with a non-zero status; nothing is returned before that.         *)
Failed ==
    \/ name \notin {"status", "rebase", "commit", "new", "log", "diff", "git-clone"}
    \/ proc # <<>> /\ proc[1].kind = "error"
    \/ proc # <<>> /\ proc[1].kind = "output" /\ proc[1].status # 0

C12_Envelope ==
    /\ pc # "returned" => (result = <<>> /\ response = <<>>)
    /\ pc = "returned" =>
          /\ result # <<>> /\ result[1].ok /\ DOMAIN result[1] = {"ok", "val"}
          /\ response = <<result[1].val>>
          /\ DOMAIN response[1] = {"content", "is_error", "meta"}
          /\ Len(response[1].content) = 1
          /\ response[1].content[1].type = "text"
          /\ response[1].is_error \in {<<TRUE>>, <<FALSE>>}
          /\ response[1].is_error = <<Failed>>
          /\ response[1].meta = <<>>

C12_Witness ==
    /\ pc = "returned" /\ name = "diff" /\ arguments # <<>>
    /\ proc[1].kind = "output" /\ proc[1].status = 0
    /\ result[1].ok /\ response[1].is_error = <<FALSE>>

----------------------------------------------------------------------------
(* The shape of the arguments *)

KeysOf(n) == {SchemaOf(n)[i].key : i \in 1..Len(SchemaOf(n))}
TypeOfKey(n, key) ==
    SchemaOf(n)[CHOOSE i \in 1..Len(SchemaOf(n)) : SchemaOf(n)[i].key = key].ty

\* the value j has the shape of an optional field of the type
ShapeOk(ty, j) ==
    \/ j.k = "null"
    \/ ty = "String" /\ j.k = "str"
    \/ ty = "u32" /\ j.k = "num" /\ j.n >= 0
    \/ ty = "bool" /\ j.k = "bool"
    \/ ty = "Vec<String>" /\ j.k = "arr" /\ \A i \in 1..Len(j.a) : j.a[i].k = "str"

\* the keys of the tool under which the object o holds a value of the wrong
\* shape
MalformedKeys(n, o) ==
    {key \in KeysOf(n) \cap DOMAIN o : ~ShapeOk(TypeOfKey(n, key), o[key])}

\* the arguments a are absent or do not decode into the struct of the tool
Undecodable(n, a) ==
    \/ a = <<>>
    \/ a[1].k \notin {"obj", "arr"}
    \/ a[1].k = "obj" /\ MalformedKeys(n, a[1].o) # {}
    \/ /\ a[1].k = "arr"
       /\ \/ Len(a[1].a) # Len(SchemaOf(n))
          \/ \E i \in 1..Len(SchemaOf(n)) : ~ShapeOk(SchemaOf(n)[i].ty, a[1].a[i])

\* the subcommand alone
FixedTokens(n) == IF n = "git-clone" THEN <<"git", "clone">> ELSE <<n>>

\* the object o without the keys K
Without(o, K) == [key \in DOMAIN o \ K |-> o[key]]

\* the vector and the directory the adapter of the tool gives the command
\* for the parameters p
ArgsFor(n, p) ==
    CASE n = "status" -> status_args(p)
      [] n = "rebase" -> rebase_args(p)
      [] n = "commit" -> commit_args(p)
      [] n = "new" -> new_args(p)
      [] n = "log" -> log_args(p)
      [] n = "diff" -> diff_args(p)
      [] n = "git-clone" -> git_clone_args(p)
DirFor(n, p) == IF n = "git-clone" THEN <<>> ELSE p.cwd

\* the call of a known tool has run its command
Called == name \in KnownTools /\ pc \in {"running", "returned"}

(* C13: for every known tool, when the arguments are absent or do not      *)
(* decode into the parameter struct the all-absent parameters are used:    *)
(* the process is spawned with the subcommand alone and no directory, and  *)
(* the response tells of the process only, not of the decoding.            *)
C13_DefaultOnUndecodable ==
    (Called /\ Undecodable(name, arguments)) =>
        /\ \A f \in DOMAIN params : params[f] = <<>>
        /\ args = FixedTokens(name)
        /\ cwd = <<>>
        /\ spawns = 1
        /\ pc = "returned" =>
              /\ proc # <<>> /\ result[1].ok
              /\ response[1].is_error =
                    <<proc[1].kind = "error" \/ proc[1].status # 0>>

C13_Witness ==
    /\ Called /\ name = "log" /\ pc = "returned"
    /\ arguments = <<JNum(1)>>
    /\ args = <<"log">> /\ cwd = <<>>
    /\ response[1].is_error = <<FALSE>>

(* C14: for every known tool, an arguments object with a key the tool does *)
(* not read gives the parameters, the argument vector and the directory of *)
(* the same object without that key.                                       *)
C14_UnknownKeysIgnored ==
    (/\ Called /\ arguments # <<>> /\ arguments[1].k = "obj"
     /\ DOMAIN arguments[1].o \ KeysOf(name) # {}) =>
        LET o == arguments[1].o
            kept == Without(o, DOMAIN o \ KeysOf(name))
            p == Decode(SchemaOf(name), <<JObj(kept)>>)
        IN /\ params = p
           /\ args = ArgsFor(name, p)
           /\ cwd = DirFor(name, p)
           /\ MalformedKeys(name, o) = {} =>
                 \A key \in KeysOf(name) \cap DOMAIN o :
                     o[key].k # "null" =>
                         \E f \in DOMAIN params : params[f] # <<>>

C14_Witness ==
    /\ Called /\ name = "status" /\ arguments # <<>> /\ arguments[1].k = "obj"
    /\ DOMAIN arguments[1].o = {"repoPath", "cwd", "verbose"}
    /\ args = <<"status", "-R", "/repo">> /\ cwd = <<"/work">>

\* the call of a known tool was given an object in which exactly one key of
\* the tool holds a value of the wrong shape
OneMalformed ==
    /\ Called /\ arguments # <<>> /\ arguments[1].k = "obj"
    /\ Cardinality(MalformedKeys(name, arguments[1].o)) = 1

(* C15 as claimed: an arguments object in which one known field has a      *)
(* value of the wrong shape gives the argument vector and the directory of *)
(* the same object without that field, the other fields being applied.     *)
C15_MalformedFieldIgnored ==
    OneMalformed =>
        LET o == arguments[1].o
            p == Decode(SchemaOf(name), <<JObj(Without(o, MalformedKeys(name, o)))>>)
        IN /\ args = ArgsFor(name, p)
           /\ cwd = DirFor(name, p)

(* C15 amended: an arguments object in which one known field has a value   *)
(* of the wrong shape gives the argument vector and the directory of a     *)
(* call without arguments: the subcommand alone and no directory, none of  *)
(* the other supplied fields (repoPath, cwd, ...) being applied.           *)
C15_MalformedFieldDropsAll ==
    OneMalformed =>
        /\ \A f \in DOMAIN params : params[f] = <<>>
        /\ args = ArgsFor(name, Decode(SchemaOf(name), <<>>))
        /\ args = FixedTokens(name)
        /\ cwd = <<>>

C15_Witness ==
    /\ OneMalformed /\ name = "log"
    /\ MalformedKeys(name, arguments[1].o) = {"limit"}
    /\ arguments[1].o["limit"] = JStr("5")
    /\ {"repoPath", "cwd"} \subseteq DOMAIN arguments[1].o
    /\ args = <<"log">> /\ cwd = <<>>

(* C16: for status, rebase, commit, new, log and diff the process is run   *)
(* in the directory given by cwd when there is one and without a directory *)
(* override otherwise; the directory is no token of the argument vector;   *)
(* standard output and standard error each have a pipe of their own.       *)
C16_WorkingDirectory ==
    (Spawned /\ name \in RepoTools) =>
        /\ cwd = params.cwd
        /\ (arguments # <<>> /\ "cwd" \in DOMAIN arguments[1].o)
              => cwd = <<arguments[1].o["cwd"].s>>
        /\ (arguments = <<>> \/ "cwd" \notin DOMAIN arguments[1].o) => cwd = <<>>
        /\ cwd # <<>> => Count(cwd[1], args) = 0
        /\ stdio = << [stdout |-> "piped", stderr |-> "piped"] >>

C16_Witness ==
    /\ Spawned /\ name = "log" /\ pc = "returned"
    /\ cwd = <<"/work">> /\ params.repo_path = <<"/repo">>
    /\ args = <<"log", "-R", "/repo">>

(* C17: create_tools registers seven tools with pairwise distinct names,   *)
(* status, rebase, commit, new, log, diff and git-clone; each has an arm   *)
(* in call, so a call of a registered tool runs its command and never      *)
(* answers "Unknown tool".                                                 *)
C17_Registry ==
    /\ Len(create_tools) = 7
    /\ \A i, j \in 1..Len(create_tools) : i # j => create_tools[i] # create_tools[j]
    /\ {create_tools[i] : i \in 1..Len(create_tools)}
          = {"status", "rebase", "commit", "new", "log", "diff", "git-clone"}
    /\ \A i \in 1..Len(create_tools) : create_tools[i] \in main_call_arms
    /\ (name \in {create_tools[i] : i \in 1..Len(create_tools)} /\ pc = "returned") =>
          /\ spawns = 1 /\ proc # <<>>
          /\ TextOf(response[1]) # "Unknown tool: " \o name

C17_Witness ==
    /\ name = create_tools[7] /\ name = "git-clone"
    /\ pc = "returned" /\ spawns = 1
    /\ response[1].is_error = <<FALSE>>

(* C18: for every call of status, new, diff, commit, rebase or git-clone,   *)
(* with or without arguments, whether the process succeeds or fails, the   *)
(* text of the response is not empty.                                      *)
C18_TextNonEmpty ==
    (/\ pc = "returned"
     /\ name \in {"status", "new", "diff", "commit", "rebase", "git-clone"}) =>
        /\ Len(response[1].content) = 1
        /\ TextOf(response[1]) # ""

\* a step of an invocation of a known tool: from the call to the wait with
\* one spawn, from the wait to the response with the outcome of the process
OrderedStep ==
    name \in KnownTools =>
        /\ pc = "idle" => (pc' = "running" /\ spawns' = 1 /\ response' = <<>>)
        /\ pc = "running" =>
              (/\ pc' = "returned" /\ proc' # <<>> /\ response' # <<>>
               /\ args' = args /\ cwd' = cwd /\ spawns' = spawns)
        /\ pc = "returned" => UNCHANGED vars

(* C19: in an invocation of a known tool the argument vector is complete   *)
(* when the process is spawned and is not touched afterwards, one process  *)
(* is spawned, the response is made by the step in which the process exits *)
(* or fails to launch and not before, and nothing follows the response: no *)
(* second spawn after a launch failure or a non-zero exit.                 *)
C19_Order ==
    /\ [](name \in KnownTools =>
            /\ spawns <= 1
            /\ pc = "idle" =>
                  (spawns = 0 /\ args = <<>> /\ proc = <<>> /\ response = <<>>)
            /\ pc = "running" =>
                  (/\ spawns = 1 /\ args = ArgsFor(name, params)
                   /\ proc = <<>> /\ response = <<>>)
            /\ pc = "returned" =>
                  (/\ spawns = 1 /\ args = ArgsFor(name, params)
                   /\ proc # <<>> /\ response # <<>>))
    /\ [][OrderedStep]_vars

C19_Witness ==
    /\ name = "rebase" /\ pc = "returned" /\ spawns = 1
    /\ proc # <<>> /\ proc[1].kind = "error"
    /\ args = <<"rebase", "-s", "@", "-d", "main", "-R", "/repo">>

----------------------------------------------------------------------------
(* Termination *)

\* a call of any tool
CallAny(A) ==
    \/ CallStatus(A)
    \/ CallRebase(A)
    \/ CallCommit(A)
    \/ CallNew(A)
    \/ CallLog(A)
    \/ CallDiff(A)
    \/ CallGitClone(A)
    \/ CallUnknown(A)

\* The calls that leave no key out, the process writing one byte at most
NextLive ==
    \/ CallStatus(FullArgumentsOf)
    \/ CallRebase(FullArgumentsOf)
    \/ CallCommit(FullArgumentsOf)
    \/ CallNew(FullArgumentsOf)
    \/ CallLog(FullArgumentsOf)
    \/ CallDiff(FullArgumentsOf)
    \/ CallGitClone(FullArgumentsOf)
    \/ CallUnknown(FullArgumentsOf)
    \/ ProcessExit(ShortOutputs)
    \/ LaunchFailure

\* call runs on its thread until it blocks in cmd.output(); the external
\* process is taken to terminate or to fail to launch
SpecLive ==
    /\ Init
    /\ [][NextLive]_vars
    /\ WF_vars(CallAny(FullArgumentsOf))
    /\ WF_vars(ProcessExit(ShortOutputs) \/ LaunchFailure)

(* C20: when the external process exits or fails to launch the invocation  *)
(* returns; an invocation that waits leaves the wait only by that exit or  *)
(* launch failure, so with a process that never ends it never returns.     *)
C20_Termination ==
    /\ (pc = "idle") ~> (pc = "returned")
    /\ (pc = "running") ~> (pc = "returned" /\ proc # <<>>)
    /\ [][pc = "running" => (pc' = "returned" /\ proc = <<>> /\ proc' # <<>>)]_vars
    /\ ([](proc = <<>>)) => [](name \in KnownTools => pc # "returned")

C20_Witness ==
    /\ name = "status" /\ arguments = <<>> /\ pc = "returned"
    /\ proc # <<>> /\ proc[1].kind = "output" /\ proc[1].status = 0
    /\ proc[1].stdout = <<"M">>

----------------------------------------------------------------------------
(* Concurrent invocations *)

(* call takes &self and every adapter keeps its parameters, its vector and  *)
(* its Command in locals, so each invocation has a state of its own: under *)
(* SpecConc every variable holds a function from the invocations to what   *)
(* the variable holds for one invocation under Spec.                       *)

\* the number of invocations in flight
MaxCalls == 2

Calls == 1..MaxCalls

ConcNames == {"status", "commit", "git-clone", "unknown"}

\* the arguments of the concurrent calls: none, or one of two objects that
\* name the same repository
ConcArguments ==
    {None,
     <<JObj([repoPath |-> JStr("/repo"), cwd |-> JStr("/work"),
             message |-> JStr("fix"), source |-> JStr("@")])>>,
     <<JObj([repoPath |-> JStr("/repo"), message |-> JStr(""),
             source |-> JStr("main"), destination |-> JStr("dst")])>>}

\* a process that writes M to standard output and exits with 0, or writes
\* M to standard error and exits with 1
ConcOutputs ==
    {o \in ShortOutputs : \/ o.status = 0 /\ o.stdout = <<"M">>
                          \/ o.status = 1 /\ o.stderr = <<"M">>}

InitConc ==
    /\ name \in [Calls -> ConcNames]
    /\ pc = [i \in Calls |-> "idle"]
    /\ arguments = [i \in Calls |-> None]
    /\ params = [i \in Calls |-> <<>>]
    /\ args = [i \in Calls |-> <<>>]
    /\ cwd = [i \in Calls |-> None]
    /\ spawns = [i \in Calls |-> 0]
    /\ proc = [i \in Calls |-> None]
    /\ response = [i \in Calls |-> None]
    /\ stdio = [i \in Calls |-> None]
    /\ result = [i \in Calls |-> None]

\* call of invocation i held back while the command of another invocation
\* runs
ConcCall_serialized(i) ==
    /\ pc[i] = "idle"
    /\ \A j \in Calls \ {i} : pc[j] # "running"
    /\ \E a \in ConcArguments :
          /\ arguments' = [arguments EXCEPT ![i] = a]
          /\ IF name[i] \in KnownTools
             THEN LET p == Decode(SchemaOf(name[i]), a)
                  IN /\ params' = [params EXCEPT ![i] = p]
                     /\ args' = [args EXCEPT ![i] = ArgsFor(name[i], p)]
                     /\ stdio' = [stdio EXCEPT ![i] = Some(Stdio)]
                     /\ cwd' = [cwd EXCEPT ![i] = DirFor(name[i], p)]
                     /\ spawns' = [spawns EXCEPT ![i] = spawns[i] + 1]
                     /\ pc' = [pc EXCEPT ![i] = "running"]
                     /\ UNCHANGED <<name, proc, response, result>>
             ELSE /\ response' = [response EXCEPT ![i] = Some(unknown_tool(name[i]))]
                  /\ result' = [result EXCEPT ![i] = Some(Ok(unknown_tool(name[i])))]
                  /\ pc' = [pc EXCEPT ![i] = "returned"]
                  /\ UNCHANGED <<name, params, args, cwd, spawns, proc, stdio>>

\* call of invocation i up to cmd.output(), or through the fall-through arm
ConcCall(i) ==
    /\ pc[i] = "idle"
    /\ \E a \in ConcArguments :
          /\ arguments' = [arguments EXCEPT ![i] = a]
          /\ IF name[i] \in KnownTools
             THEN LET p == Decode(SchemaOf(name[i]), a)
                  IN /\ params' = [params EXCEPT ![i] = p]
                     /\ args' = [args EXCEPT ![i] = ArgsFor(name[i], p)]
                     /\ stdio' = [stdio EXCEPT ![i] = Some(Stdio)]
                     /\ cwd' = [cwd EXCEPT ![i] = DirFor(name[i], p)]
                     /\ spawns' = [spawns EXCEPT ![i] = spawns[i] + 1]
                     /\ pc' = [pc EXCEPT ![i] = "running"]
                     /\ UNCHANGED <<name, proc, response, result>>
             ELSE /\ response' = [response EXCEPT ![i] = Some(unknown_tool(name[i]))]
                  /\ result' = [result EXCEPT ![i] = Some(Ok(unknown_tool(name[i])))]
                  /\ pc' = [pc EXCEPT ![i] = "returned"]
                  /\ UNCHANGED <<name, params, args, cwd, spawns, proc, stdio>>

\* cmd.output() of invocation i gives back the outcome o of its process
ConcOutcome(i, o) ==
    /\ proc' = [proc EXCEPT ![i] = Some(o)]
    /\ response' = [response EXCEPT ![i] = Some(to_response(run_jj_command_sync(o)))]
    /\ result' = [result EXCEPT ![i] = Some(Ok(to_response(run_jj_command_sync(o))))]
    /\ pc' = [pc EXCEPT ![i] = "returned"]
    /\ UNCHANGED <<name, arguments, params, args, cwd, spawns, stdio>>

ConcProcessExit(i) ==
    /\ pc[i] = "running"
    /\ \E o \in ConcOutputs : ConcOutcome(i, o)

ConcLaunchFailure(i) ==
    /\ pc[i] = "running"
    /\ \E o \in LaunchErrors : ConcOutcome(i, o)

NextConc ==
    \/ \E i \in Calls : ConcCall(i)
    \/ \E i \in Calls : ConcProcessExit(i)
    \/ \E i \in Calls : ConcLaunchFailure(i)

SpecConc == InitConc /\ [][NextConc]_vars

\* what invocation j holds
Slot(j) ==
    <<name[j], pc[j], arguments[j], params[j], args[j], cwd[j], spawns[j],
      proc[j], response[j], stdio[j], result[j]>>

\* a step that leaves every invocation but one as it was
OwnStep == \E i \in Calls : \A j \in Calls \ {i} : Slot(j)' = Slot(j)

\* the vector of the tool for the parameters p, token by token
ExpectedVector(n, p) ==
    CASE n = "status" -> <<"status">> \o ExpectOpt("-R", p.repo_path)
      [] n = "commit" -> <<"commit">> \o ExpectOpt("-m", p.message)
                         \o ExpectOpt("-R", p.repo_path)
      [] n = "git-clone" -> <<"git", "clone">>
                            \o ExpectBare(p.source)
                            \o ExpectBare(p.destination)
                            \o ExpectFlag("--colocate", p.colocate)
                            \o ExpectOpt("--remote", p.remote)
                            \o ExpectNum("--depth", p.depth)

\* the text and the flag the outcome o of a process gives
ExpectedText(o) ==
    IF o.kind = "error" THEN "Error: " \o o.error
    ELSE IF o.status = 0 THEN "M" ELSE "Error: M"

\* invocation i holds what its own arguments and its own process give
OwnState(i) ==
    /\ (name[i] \in KnownTools /\ pc[i] # "idle") =>
          /\ params[i] = Decode(SchemaOf(name[i]), arguments[i])
          /\ args[i] = ExpectedVector(name[i], params[i])
          /\ arguments[i] = <<>> => args[i] = FixedTokens(name[i])
          /\ cwd[i] = DirFor(name[i], params[i])
          /\ spawns[i] = 1
    /\ (name[i] \in KnownTools /\ pc[i] = "returned") =>
          /\ proc[i] # <<>>
          /\ response[i] = <<to_response(run_jj_command_sync(proc[i][1]))>>
          /\ TextOf(response[i][1]) = ExpectedText(proc[i][1])
          /\ response[i][1].is_error =
                <<proc[i][1].kind = "error" \/ proc[i][1].status # 0>>
    /\ (name[i] \notin KnownTools /\ pc[i] = "returned") =>
          /\ spawns[i] = 0 /\ proc[i] = <<>>
          /\ TextOf(response[i][1]) = "Unknown tool: " \o name[i]

\* invocation i is never held back by another one
NotHeld(i) ==
    /\ pc[i] = "idle" => ENABLED ConcCall(i)
    /\ pc[i] = "running" => ENABLED (ConcProcessExit(i) \/ ConcLaunchFailure(i))

(* C21: with several invocations in flight, in any interleaving, each      *)
(* invocation's vector comes from its own parameters and its response from *)
(* the outcome of its own process; a step of one invocation leaves the     *)
(* others as they were; no invocation waits for another, also when both    *)
(* name the same repository.                                               *)
C21_Isolation ==
    /\ [](\A i \in Calls : OwnState(i) /\ NotHeld(i))
    /\ [][OwnStep]_vars

C21_Witness ==
    /\ name[1] = "commit" /\ name[2] = "status"
    /\ pc[1] = "returned" /\ pc[2] = "running"
    /\ args[1] = <<"commit", "-m", "fix", "-R", "/repo">>
    /\ args[2] = <<"status", "-R", "/repo">>
    /\ cwd[1] = <<"/work">> /\ cwd[2] = <<>>
    /\ TextOf(response[1][1]) = "Error: M" /\ response[2] = <<>>

----------------------------------------------------------------------------
(* The server binary *)

(* main.rs declares the parameter structs, call, add_repo_args,            *)
(* run_jj_command_sync and the adapters a second time; the definitions     *)
(* main_* follow main.rs as the ones above follow lib.rs.  serde, Vec,     *)
(* String and std::process are the same crates on both sides.              *)

\* The parameter structs of the binary
main_StatusParams ==
    << Fld("repoPath", "repo_path", "String"),
       Fld("cwd", "cwd", "String") >>

main_RebaseParams ==
    << Fld("source", "source", "String"),
       Fld("destination", "destination", "String"),
       Fld("repoPath", "repo_path", "String"),
       Fld("cwd", "cwd", "String") >>

main_CommitParams ==
    << Fld("message", "message", "String"),
       Fld("repoPath", "repo_path", "String"),
       Fld("cwd", "cwd", "String") >>

main_NewParams ==
    << Fld("parents", "parents", "String"),
       Fld("repoPath", "repo_path", "String"),
       Fld("cwd", "cwd", "String") >>

main_LogParams ==
    << Fld("repoPath", "repo_path", "String"),
       Fld("cwd", "cwd", "String"),
       Fld("limit", "limit", "u32"),
       Fld("template", "template", "String"),
       Fld("revisions", "revisions", "String") >>

main_DiffParams ==
    << Fld("repoPath", "repo_path", "String"),
       Fld("cwd", "cwd", "String"),
       Fld("from", "from", "String"),
       Fld("to", "to", "String"),
       Fld("paths", "paths", "Vec<String>"),
       Fld("summary", "summary", "bool"),
       Fld("stat", "stat", "bool"),
       Fld("context", "context", "u32") >>

main_GitCloneParams ==
    << Fld("source", "source", "String"),
       Fld("destination", "destination", "String"),
       Fld("colocate", "colocate", "bool"),
       Fld("remote", "remote", "String"),
       Fld("depth", "depth", "u32") >>

\* add_repo_args of the binary pushing the long form of the flag
main_add_repo_args_long(v, repo_path) ==
    IF repo_path # None
    THEN push(push(v, "--repository"), repo_path[1])
    ELSE v

\* add_repo_args of the binary
main_add_repo_args(v, repo_path) ==
    IF repo_path # None
    THEN push(push(v, "-R"), repo_path[1])
    ELSE v

\* The vectors the adapters of the binary build
main_status_args(p) ==
    LET a0 == <<"status">>
    IN main_add_repo_args(a0, p.repo_path)

main_rebase_args(p) ==
    LET a0 == <<"rebase">>
        a1 == IF p.source # None THEN push(push(a0, "-s"), p.source[1]) ELSE a0
        a2 == IF p.destination # None
              THEN push(push(a1, "-d"), p.destination[1]) ELSE a1
    IN main_add_repo_args(a2, p.repo_path)

main_commit_args(p) ==
    LET a0 == <<"commit">>
        a1 == IF p.message # None THEN push(push(a0, "-m"), p.message[1]) ELSE a0
    IN main_add_repo_args(a1, p.repo_path)

main_new_args(p) ==
    LET a0 == <<"new">>
        a1 == IF p.parents # None THEN push(a0, p.parents[1]) ELSE a0
    IN main_add_repo_args(a1, p.repo_path)

main_log_args(p) ==
    LET a0 == <<"log">>
        a1 == IF p.limit # None
              THEN push(push(a0, "-n"), u32_to_string(p.limit[1])) ELSE a0
        a2 == IF p.template # None THEN push(push(a1, "-T"), p.template[1]) ELSE a1
        a3 == IF p.revisions # None THEN push(a2, p.revisions[1]) ELSE a2
    IN main_add_repo_args(a3, p.repo_path)

main_diff_args(p) ==
    LET a0 == <<"diff">>
        a1 == IF p.from # None THEN push(push(a0, "--from"), p.from[1]) ELSE a0
        a2 == IF p.to # None THEN push(push(a1, "--to"), p.to[1]) ELSE a1
        a3 == IF p.context # None
              THEN push(push(a2, "--context"), u32_to_string(p.context[1])) ELSE a2
        a4 == IF p.summary = Some(TRUE) THEN push(a3, "--summary") ELSE a3
        a5 == IF p.stat = Some(TRUE) THEN push(a4, "--stat") ELSE a4
        a6 == IF p.paths # None THEN extend(a5, p.paths[1]) ELSE a5
    IN main_add_repo_args(a6, p.repo_path)

main_git_clone_args(p) ==
    LET a0 == <<"git", "clone">>
        a1 == IF p.source # None THEN push(a0, p.source[1]) ELSE a0
        a2 == IF p.destination # None THEN push(a1, p.destination[1]) ELSE a1
        a3 == IF p.colocate = Some(TRUE) THEN push(a2, "--colocate") ELSE a2
        a4 == IF p.remote # None THEN push(push(a3, "--remote"), p.remote[1]) ELSE a3
        a5 == IF p.depth # None
              THEN push(push(a4, "--depth"), u32_to_string(p.depth[1])) ELSE a4
    IN a5

\* run_jj_command_sync of the binary, after cmd.output()
main_run_jj_command_sync(o) ==
    IF o.kind = "output"
    THEN IF success(o.status)
         THEN Ok(to_string(trim(from_utf8_lossy(o.stdout))))
         ELSE Anyhow("Error: " \o to_string(trim(from_utf8_lossy(o.stderr))))
    ELSE Anyhow("Error: " \o o.error)

\* The match that closes every run_jj_* adapter of the binary
main_to_response(r) ==
    IF r.ok
    THEN [content |-> <<Text(r.val)>>, is_error |-> Some(FALSE), meta |-> None]
    ELSE [content |-> <<Text(r.msg)>>, is_error |-> Some(TRUE), meta |-> None]

\* The fall-through arm of call in the binary
main_unknown_tool(n) ==
    [content |-> <<Text("Unknown tool: " \o n)>>, is_error |-> Some(TRUE), meta |-> None]

main_SchemaOf(n) ==
    CASE n = "status" -> main_StatusParams
      [] n = "rebase" -> main_RebaseParams
      [] n = "commit" -> main_CommitParams
      [] n = "new" -> main_NewParams
      [] n = "log" -> main_LogParams
      [] n = "diff" -> main_DiffParams
      [] n = "git-clone" -> main_GitCloneParams

\* the vector and the directory the adapter of the binary gives the command
main_ArgsFor(n, p) ==
    CASE n = "status" -> main_status_args(p)
      [] n = "rebase" -> main_rebase_args(p)
      [] n = "commit" -> main_commit_args(p)
      [] n = "new" -> main_new_args(p)
      [] n = "log" -> main_log_args(p)
      [] n = "diff" -> main_diff_args(p)
      [] n = "git-clone" -> main_git_clone_args(p)
main_DirFor(n, p) == IF n = "git-clone" THEN <<>> ELSE p.cwd

(* The two entry points side by side: under SpecEq the call of the library *)
(* and the call of the binary are given the same tool name, the same       *)
(* arguments and the same outcome of the process; every variable but name, *)
(* arguments and proc holds a record with the value of either side.        *)

Both(l, m) == [lib |-> l, main |-> m]

\* the arguments of any shape, well-formed or not
EqArgumentsOf == [n \in Names |-> ArgumentsOf[n] \cup RawArgumentsOf[n]]

InitEq ==
    /\ name \in Names
    /\ arguments = None
    /\ proc = None
    /\ pc = Both("idle", "idle")
    /\ params = Both(<<>>, <<>>)
    /\ args = Both(<<>>, <<>>)
    /\ cwd = Both(None, None)
    /\ spawns = Both(0, 0)
    /\ stdio = Both(None, None)
    /\ response = Both(None, None)
    /\ result = Both(None, None)

\* call of the library up to cmd.output(), or through its fall-through arm
lib_call(n, a) ==
    IF n \in KnownTools
    THEN LET p == Decode(SchemaOf(n), a)
         IN [pc |-> "running", params |-> p, args |-> ArgsFor(n, p),
             cwd |-> DirFor(n, p), spawns |-> 1, stdio |-> Some(Stdio),
             response |-> None, result |-> None]
    ELSE [pc |-> "returned", params |-> <<>>, args |-> <<>>, cwd |-> None,
          spawns |-> 0, stdio |-> None,
          response |-> Some(unknown_tool(n)), result |-> Some(Ok(unknown_tool(n)))]

\* call of the binary up to cmd.output(), or through its fall-through arm
main_call(n, a) ==
    IF n \in main_call_arms
    THEN LET p == Decode(main_SchemaOf(n), a)
         IN [pc |-> "running", params |-> p, args |-> main_ArgsFor(n, p),
             cwd |-> main_DirFor(n, p), spawns |-> 1, stdio |-> Some(Stdio),
             response |-> None, result |-> None]
    ELSE [pc |-> "returned", params |-> <<>>, args |-> <<>>, cwd |-> None,
          spawns |-> 0, stdio |-> None,
          response |-> Some(main_unknown_tool(n)),
          result |-> Some(Ok(main_unknown_tool(n)))]

\* both entry points are called with the arguments a
EqCall ==
    /\ pc = Both("idle", "idle")
    /\ \E a \in EqArgumentsOf[name] :
          LET l == lib_call(name, a)
              m == main_call(name, a)
          IN /\ arguments' = a
             /\ pc' = Both(l.pc, m.pc)
             /\ params' = Both(l.params, m.params)
             /\ args' = Both(l.args, m.args)
             /\ cwd' = Both(l.cwd, m.cwd)
             /\ spawns' = Both(l.spawns, m.spawns)
             /\ stdio' = Both(l.stdio, m.stdio)
             /\ response' = Both(l.response, m.response)
             /\ result' = Both(l.result, m.result)
    /\ UNCHANGED <<name, proc>>

\* the process of either side ends with the outcome o; a side that runs no
\* process keeps what it has
EqOutcome(O) ==
    /\ "running" \in {pc.lib, pc.main}
    /\ \E o \in O :
          LET l == to_response(run_jj_command_sync(o))
              m == main_to_response(main_run_jj_command_sync(o))
          IN /\ proc' = Some(o)
             /\ response' = Both(IF pc.lib = "running" THEN Some(l) ELSE response.lib,
                                 IF pc.main = "running" THEN Some(m) ELSE response.main)
             /\ result' = Both(IF pc.lib = "running" THEN Some(Ok(l)) ELSE result.lib,
                               IF pc.main = "running" THEN Some(Ok(m)) ELSE result.main)
    /\ pc' = Both("returned", "returned")
    /\ UNCHANGED <<name, arguments, params, args, cwd, spawns, stdio>>

NextEq ==
    \/ EqCall
    \/ EqOutcome(ShortOutputs)
    \/ EqOutcome(LaunchErrors)

SpecEq == InitEq /\ [][NextEq]_vars

(* C22: for every tool name, every arguments value and every outcome of    *)
(* the external process, call of the binary gives the argument vector, the *)
(* directory and the response envelope that call of the library gives,     *)
(* and runs a process exactly when the library does.                       *)
C22_EntryPointsEquivalent ==
    /\ pc.main = pc.lib
    /\ spawns.main = spawns.lib
    /\ params.main = params.lib
    /\ args.main = args.lib
    /\ cwd.main = cwd.lib
    /\ stdio.main = stdio.lib
    /\ response.main = response.lib
    /\ result.main = result.lib
    /\ pc.main = "returned" =>
          /\ response.main # <<>>
          /\ DOMAIN response.main[1] = {"content", "is_error", "meta"}

C22_Witness ==
    /\ name = "diff" /\ pc = Both("returned", "returned")
    /\ args.main = <<"diff", "--from", "@-", "--to", "@", "--context", "3",
                     "--summary", "a.txt", "-R", "/repo">>
    /\ args.lib = args.main
    /\ cwd.main = <<"/work">>
    /\ proc # <<>> /\ proc[1].kind = "output" /\ proc[1].status = 1
    /\ TextOf(response.main[1]) = "Error: M"

====
